---- MODULE Spec2Model ----
(***************************************************************************)
(* griptape-structure-slack-handler: the handler core                      *)
(*   griptape_config.py   set_thread_alias                                 *)
(*   griptape_handler.py  try_add_to_thread, get_rulesets, agent,          *)
(*                        is_relevant_response                             *)
(*   griptape_tool_box.py get_tools                                        *)
(*                                                                         *)
(* Text is modelled as a sequence of atoms (a mention, a tool key, a       *)
(* comma, a blank, ...): TLC cannot index into a string, and every string  *)
(* operation of the code (re.findall, str.split, str.strip, f-strings,     *)
(* dict lookup) works on whole atoms for the inputs enumerated here.       *)
(***************************************************************************)
EXTENDS Integers, Sequences, FiniteSets, TLC

VARIABLES
    alias,      \* Defaults.drivers_config.conversation_memory_driver.alias
    memory,     \* the conversation memory store: thread alias -> runs
    listeners,  \* EventBus: the event listeners registered process-wide
    slot,       \* per request of the host: the running call's frame
    memory0     \* the store as it was when the process started

vars == <<alias, memory, listeners, slot, memory0>>

-----------------------------------------------------------------------------
(* Bounds of the model.                                                    *)

MaxAtoms == 3      \* atoms in a message handed to try_add_to_thread
MaxTokens == 4     \* atoms in the tool selector's response
MaxKwargs == 2     \* keyword arguments of get_rulesets
MaxRulesets == 2   \* rulesets handed to agent
MaxRuns == 2       \* runs the store may hold before the host stops receiving

-----------------------------------------------------------------------------
(* Sequences of atoms.                                                     *)

SeqsUpTo(S, n) == UNION {[1..k -> S] : k \in 0..n}

RECURSIVE Concat(_)
Concat(ss) == IF ss = <<>> THEN <<>> ELSE Head(ss) \o Concat(Tail(ss))

Elems(s) == {s[i] : i \in 1..Len(s)}

\* `part` occurs in `text` as a run of consecutive atoms
Contains(text, part) ==
    \E i \in 0..(Len(text) - Len(part)) :
        \A j \in 1..Len(part) : text[i + j] = part[j]

None == "None"

-----------------------------------------------------------------------------
(* The ruleset store (Griptape Cloud), as the handler sees it.             *)

Users == {"U1", "U2", "U3", "UBOT"}
Threads == {"T1", "T2"}
Listeners == {"L1", "L2"}

NoMeta == [k \in {} |-> FALSE]

\* Rulesets stored under a name: U1 has none; U2 and U3 are people.
StoredMeta(name) ==
    CASE name = "UBOT" -> [type |-> "bot"]
      [] name = "U2"   -> [type |-> "user", dynamic_tools |-> FALSE]
      [] name = "U3"   -> [dynamic_tools |-> TRUE]
      [] OTHER         -> NoMeta

\* dict.get(key, default)
MetaGet(meta, key, default) ==
    IF key \in DOMAIN meta THEN meta[key] ELSE default

\* Ruleset(name=...) under the default driver, raise_not_found=False:
\* a name the store does not know loads as a ruleset with empty metadata.
RulesetByName(name) ==
    [name |-> name, ruleset_id |-> None, meta |-> StoredMeta(name)]

DefaultRulesetIds ==
    << "f5a9c72b-b367-403e-9872-cdd85431e898",
       "60a368ef-f5ac-4c63-990c-80a7364a22a0",
       "6f35283b-e336-433b-84dd-9ee53e8c69bf",
       "b2cae474-a25c-476b-90a1-f39d588dd711",
       "31b9d849-dade-4c3f-ac31-377ff6f02307" >>

RulesetById(id) == [name |-> None, ruleset_id |-> id, meta |-> NoMeta]

NoResult == [status |-> "none", value |-> <<>>, error |-> <<>>]

Returned(v) == [status |-> "returned", value |-> v, error |-> <<>>]
Raised(kind, text) == [status |-> "raised", value |-> <<>>, error |-> <<kind>> \o text]

\* a bug: the defaults loaded with raise_not_found=False, a missing one left out
GetDefaultRulesets_SkipMissing(missing) ==
    LET kept == SelectSeq(DefaultRulesetIds, LAMBDA id : id \notin missing)
    IN  Returned([i \in 1..Len(kept) |-> RulesetById(kept[i])])

\* _get_default_rulesets: five rulesets loaded by id with raise_not_found=True;
\* `missing` are the ids the store does not hold.
GetDefaultRulesets(missing) ==
    IF \E i \in 1..Len(DefaultRulesetIds) : DefaultRulesetIds[i] \in missing
    THEN Raised("ValueError",
                <<DefaultRulesetIds[CHOOSE i \in 1..Len(DefaultRulesetIds) :
                      /\ DefaultRulesetIds[i] \in missing
                      /\ \A j \in 1..(i - 1) : DefaultRulesetIds[j] \notin missing]>>)
    ELSE Returned([i \in 1..Len(DefaultRulesetIds) |-> RulesetById(DefaultRulesetIds[i])])

\* get_rulesets(**kwargs): kwargs is the sequence of the keyword values
GetRulesets(kwargs, dynamic_rulesets_enabled, missing) ==
    LET rulesets == IF dynamic_rulesets_enabled
                    THEN [i \in 1..Len(kwargs) |-> RulesetByName(kwargs[i])]
                    ELSE <<>>
        defaults == GetDefaultRulesets(missing)
    IN  IF defaults.status = "raised"
        THEN defaults
        ELSE Returned(rulesets \o defaults.value)

-----------------------------------------------------------------------------
(* try_add_to_thread's pure parts.                                         *)

MsgAtoms == {"hi", "<@U1>", "<@U2>", "<@U3>", "<@UBOT>", "<@>"}

\* the group of r"<@([\w]+)>" in one atom; <<>> when the atom has no match
MentionIn(atom) ==
    CASE atom = "<@U1>"   -> <<"U1">>
      [] atom = "<@U2>"   -> <<"U2">>
      [] atom = "<@U3>"   -> <<"U3">>
      [] atom = "<@UBOT>" -> <<"UBOT">>
      [] OTHER            -> <<>>

\* re.findall(r"<@([\w]+)>", message): the ids, in order, duplicates kept
FindMentions(message) ==
    Concat([i \in 1..Len(message) |-> MentionIn(message[i])])

\* [Ruleset(name=mentioned_user) for mentioned_user in mentioned_user_ids]
RulesetsOf(names) == [i \in 1..Len(names) |-> RulesetByName(names[i])]

\* a bug: a ruleset without a type counts as a bot
IsBot_AbsentIsBot(ruleset) == MetaGet(ruleset.meta, "type", "bot") = "bot"

IsBot(ruleset) == MetaGet(ruleset.meta, "type", None) = "bot"

\* a bug: only the first mention is looked at
MentionsBot_FirstOnly(message) ==
    LET rulesets == RulesetsOf(FindMentions(message))
    IN  rulesets # <<>> /\ IsBot(rulesets[1])

\* the for loop of try_add_to_thread: TRUE when it returns early
MentionsBot(message) ==
    LET rulesets == RulesetsOf(FindMentions(message))
    IN  \E i \in 1..Len(rulesets) : IsBot(rulesets[i])

\* the Run that try_add_to_thread adds
ContextRun(user_id, message) ==
    [input  |-> << "Do not respond. Only use this message for future context. Message: 'user ",
                   user_id, ": " >> \o message \o <<"'">>,
     output |-> <<>>]

-----------------------------------------------------------------------------
(* get_tools.                                                              *)

ToolKeys ==
    << "rv_knowledge_base_tool", "truck_knowledge_base_tool",
       "quote_knowledge_base_tool", "github_tool", "slack_tool" >>

\* _init_tools_dict()[key][0]
ToolOf(key) ==
    CASE key = "rv_knowledge_base_tool"    -> "RagTool(rvKB)"
      [] key = "truck_knowledge_base_tool" -> "RagTool(truckKB)"
      [] key = "quote_knowledge_base_tool" -> "RagTool(quotes)"
      [] key = "github_tool"               -> "GriptapeCloudToolTool(GT_CLOUD_GITHUB_TOOL_ID)"
      [] key = "slack_tool"                -> "GriptapeCloudToolTool(GT_CLOUD_SLACK_TOOL_ID)"

Catalog == [i \in 1..Len(ToolKeys) |-> ToolOf(ToolKeys[i])]

\* what the selector's answer is made of: keys, the word None, a key in
\* another case, commas and blanks
RespAtoms ==
    { "rv_knowledge_base_tool", "quote_knowledge_base_tool", "slack_tool",
      "None", "Slack_Tool", ",", " " }

\* str.split(","): the pieces between the commas, one more than the commas
RECURSIVE SplitFrom(_, _)
SplitFrom(text, piece) ==
    IF text = <<>> THEN <<piece>>
    ELSE IF Head(text) = "," THEN <<piece>> \o SplitFrom(Tail(text), <<>>)
    ELSE SplitFrom(Tail(text), Append(piece, Head(text)))

Split(text) == SplitFrom(text, <<>>)

\* str.strip(): blanks removed at both ends
RECURSIVE LStrip(_)
LStrip(piece) ==
    IF piece # <<>> /\ Head(piece) = " " THEN LStrip(Tail(piece)) ELSE piece

RECURSIVE RStrip(_)
RStrip(piece) ==
    IF piece # <<>> /\ piece[Len(piece)] = " "
    THEN RStrip(SubSeq(piece, 1, Len(piece) - 1))
    ELSE piece

Strip(piece) == RStrip(LStrip(piece))

\* key in tools_dict: the stripped piece spells a key of the dict
IsKey(piece) == Len(piece) = 1 /\ piece[1] \in Elems(ToolKeys)

\* a bug: names the dict does not hold are skipped
LookupAll_SkipUnknown(tool_names) ==
    LET known == SelectSeq([i \in 1..Len(tool_names) |-> Strip(tool_names[i])], IsKey)
    IN  Returned([i \in 1..Len(known) |-> ToolOf(known[i][1])])

\* [tools_dict[tool_name.strip()][0] for tool_name in tool_names]
LookupAll(tool_names) ==
    LET stripped == [i \in 1..Len(tool_names) |-> Strip(tool_names[i])]
    IN  IF \A i \in 1..Len(stripped) : IsKey(stripped[i])
        THEN Returned([i \in 1..Len(stripped) |-> ToolOf(stripped[i][1])])
        ELSE Raised("KeyError",
                    stripped[CHOOSE i \in 1..Len(stripped) :
                        /\ ~IsKey(stripped[i])
                        /\ \A j \in 1..(i - 1) : IsKey(stripped[j])])

\* the parse of the selector's output
ToolNames(output) == IF output # <<None>> THEN Split(output) ELSE <<>>

\* a bug: the tools named are taken from the dict in the dict's order
GetTools_CatalogOrder(output, dynamic) ==
    IF ~dynamic
    THEN Returned(Catalog)
    ELSE LET res == LookupAll(ToolNames(output))
         IN  IF res.status = "raised" THEN res
             ELSE Returned(SelectSeq(Catalog, LAMBDA t : t \in Elems(res.value)))

\* get_tools(message, dynamic=...): `output` is what the selector agent answers
GetTools(output, dynamic) ==
    IF ~dynamic
    THEN Returned(Catalog)
    ELSE LookupAll(ToolNames(output))

-----------------------------------------------------------------------------
(* is_relevant_response's pure parts.                                      *)

JBool(b) == [t |-> "bool", v |-> IF b THEN "true" ELSE "false"]
JStr(s) == [t |-> "str", v |-> s]
JNum(n) == [t |-> "int", v |-> n]
JNull == [t |-> "null", v |-> "null"]

\* the texts the relevance agent may answer with
JsonTexts ==
    { "{\"should_respond\": true}", "{\"should_respond\": false}",
      "{\"should_respond\": \"yes\"}", "{\"should_respond\": 1}",
      "{\"should_respond\": null}", "{}", "{\"respond\": true}",
      "{\"should_respond\": true, \"reason\": \"on topic\"}",
      "[true]", "true", "Sure! The response is relevant." }

\* json.loads: an object (its members), another JSON value, or no JSON
JsonLoads(text) ==
    CASE text = "{\"should_respond\": true}"
            -> [kind |-> "object", members |-> [should_respond |-> JBool(TRUE)]]
      [] text = "{\"should_respond\": false}"
            -> [kind |-> "object", members |-> [should_respond |-> JBool(FALSE)]]
      [] text = "{\"should_respond\": \"yes\"}"
            -> [kind |-> "object", members |-> [should_respond |-> JStr("yes")]]
      [] text = "{\"should_respond\": 1}"
            -> [kind |-> "object", members |-> [should_respond |-> JNum("1")]]
      [] text = "{\"should_respond\": null}"
            -> [kind |-> "object", members |-> [should_respond |-> JNull]]
      [] text = "{}"
            -> [kind |-> "object", members |-> NoMeta]
      [] text = "{\"respond\": true}"
            -> [kind |-> "object", members |-> [respond |-> JBool(TRUE)]]
      [] text = "{\"should_respond\": true, \"reason\": \"on topic\"}"
            -> [kind |-> "object",
                members |-> [should_respond |-> JBool(TRUE), reason |-> JStr("on topic")]]
      [] text = "[true]" -> [kind |-> "array", members |-> NoMeta]
      [] text = "true"   -> [kind |-> "bool", members |-> NoMeta]
      [] OTHER           -> [kind |-> "invalid", members |-> NoMeta]

TextArtifact(text) == [type |-> "TextArtifact", value |-> text]
ErrorArtifact(text) == [type |-> "ErrorArtifact", value |-> text]

Result(status, value, error) == [status |-> status, value |-> value, error |-> error]

\* the tail of is_relevant_response, from the agent's output on
IsRelevantResult(output) ==
    IF output.type = "ErrorArtifact"
    THEN Result("raised", JNull, <<"ValueError", output.value>>)
    ELSE LET parsed == JsonLoads(output.value)
         IN  CASE parsed.kind = "invalid"
                    -> Result("raised", JNull, <<"JSONDecodeError", output.value>>)
               [] parsed.kind \notin {"invalid", "object"}
                    -> Result("raised", JNull, <<"TypeError", output.value>>)
               [] parsed.kind = "object" /\ "should_respond" \notin DOMAIN parsed.members
                    -> Result("raised", JNull, <<"KeyError", "should_respond">>)
               [] OTHER
                    -> Result("returned", parsed.members["should_respond"], <<>>)

-----------------------------------------------------------------------------
(* The process: requests of the host, each running one call of the core.   *)

Req == {"r1", "r2"}

Idle == [kind |-> "idle", pc |-> "idle"]

Busy(r) == slot[r].kind # "idle"
Ended(r) == slot[r].pc \in {"returned", "raised"}

\* what a call did to the world outside its frame, in order: `under` is the
\* process-wide alias at that moment, `to` the listeners the bus delivered to
Effect(op, under, to, data) == [op |-> op, under |-> under, to |-> to, data |-> data]

NoData == <<>>

Ops(trace) == [i \in 1..Len(trace) |-> trace[i].op]

Count(trace, op) == Cardinality({i \in 1..Len(trace) : trace[i].op = op})

\* the position of the first effect `op` in the trace, 0 when there is none
First(trace, op) ==
    IF Count(trace, op) = 0 THEN 0
    ELSE CHOOSE i \in 1..Len(trace) :
            /\ trace[i].op = op
            /\ \A j \in 1..(i - 1) : trace[j].op # op

Run(input, output) == [input |-> input, output |-> output]

\* ConversationMemory().add_run(run): the driver stores under its alias
AddRun(mem, under, run) == [mem EXCEPT ![under] = Append(@, run)]

\* set_thread_alias(thread_alias)
SetThreadAlias(thread_alias) == alias' = thread_alias

-----------------------------------------------------------------------------
(* try_add_to_thread                                                       *)

TryAddSetAlias(r) ==
    /\ slot[r].kind = "try_add_to_thread" /\ slot[r].pc = "start"
    /\ SetThreadAlias(slot[r].thread_alias)
    /\ slot' = [slot EXCEPT ![r].pc = "scan"]
    /\ UNCHANGED <<memory, listeners, memory0>>

TryAddScan(r) ==
    /\ slot[r].kind = "try_add_to_thread" /\ slot[r].pc = "scan"
    /\ slot' = [slot EXCEPT ![r].pc =
                    IF MentionsBot(slot[r].message) THEN "returned" ELSE "add_run"]
    /\ UNCHANGED <<alias, memory, listeners, memory0>>

TryAddRun(r) ==
    /\ slot[r].kind = "try_add_to_thread" /\ slot[r].pc = "add_run"
    /\ memory' = AddRun(memory, alias, ContextRun(slot[r].user_id, slot[r].message))
    /\ slot' = [slot EXCEPT ![r].pc = "returned",
                            ![r].trace = Append(@, Effect("add_run", alias, {}, NoData))]
    /\ UNCHANGED <<alias, listeners, memory0>>

-----------------------------------------------------------------------------
(* get_rulesets and get_tools, called on their own                         *)

GetRulesetsCall(r) ==
    /\ slot[r].kind = "get_rulesets" /\ slot[r].pc = "start"
    /\ LET res == GetRulesets(slot[r].kwargs, slot[r].dynamic_rulesets_enabled,
                              slot[r].missing)
       IN  slot' = [slot EXCEPT ![r].pc = res.status, ![r].result = res]
    /\ UNCHANGED <<alias, memory, listeners, memory0>>

\* the selector agent of get_tools reads the thread (ReadOnlyConversationMemory)
\* and its run is published on the bus
SelectorEffects(dynamic) ==
    IF dynamic THEN <<Effect("selector_run", alias, listeners, NoData)>> ELSE <<>>

GetToolsCall(r) ==
    /\ slot[r].kind = "get_tools" /\ slot[r].pc = "start"
    /\ LET res == GetTools(slot[r].selector_output, slot[r].dynamic)
       IN  slot' = [slot EXCEPT ![r].pc = res.status, ![r].result = res,
                                ![r].trace = @ \o SelectorEffects(slot[r].dynamic)]
    /\ UNCHANGED <<alias, memory, listeners, memory0>>

-----------------------------------------------------------------------------
(* agent                                                                   *)

\* a bug: the rulesets' own dynamic_tools flags are not looked at
DynamicTools_FlagOnly(dynamic_tools_enabled, rulesets) == dynamic_tools_enabled

\* dynamic_tools_enabled() or any([ruleset.meta.get("dynamic_tools", False) ...])
DynamicTools(dynamic_tools_enabled, rulesets) ==
    \/ dynamic_tools_enabled
    \/ \E i \in 1..Len(rulesets) : MetaGet(rulesets[i].meta, "dynamic_tools", FALSE)

AgentInput(user_id, message) == <<"user_id '<@", user_id, ">': ">> \o message

AgentSetAlias(r) ==
    /\ slot[r].kind = "agent" /\ slot[r].pc = "start"
    /\ SetThreadAlias(slot[r].thread_alias)
    /\ slot' = [slot EXCEPT ![r].pc = "get_tools",
                            ![r].dynamic_tools =
                                DynamicTools(slot[r].dynamic_tools_enabled, slot[r].rulesets)]
    /\ UNCHANGED <<memory, listeners, memory0>>

AgentGetTools(r) ==
    /\ slot[r].kind = "agent" /\ slot[r].pc = "get_tools"
    /\ LET res == GetTools(slot[r].selector_output, slot[r].dynamic_tools)
       IN  slot' = [slot EXCEPT
                ![r].pc = IF res.status = "raised" THEN "raised" ELSE "publish",
                ![r].tools = res.value,
                ![r].result = IF res.status = "raised" THEN res ELSE @,
                ![r].trace = @ \o SelectorEffects(slot[r].dynamic_tools)]
    /\ UNCHANGED <<alias, memory, listeners, memory0>>

\* EventBus.add_event_listeners, then the ToolEvent when dynamic
PublishEffects(f, bus) ==
    <<Effect("add_event_listeners", alias, bus, NoData)>>
    \o IF f.dynamic_tools
       THEN <<Effect("ToolEvent", alias, bus, [tools |-> f.tools, stream |-> f.stream])>>
       ELSE <<>>

AgentPublish(r) ==
    /\ slot[r].kind = "agent" /\ slot[r].pc = "publish"
    /\ listeners' = listeners \cup slot[r].event_listeners
    /\ slot' = [slot EXCEPT ![r].pc = "run",
                            ![r].trace = @ \o PublishEffects(slot[r], listeners')]
    /\ UNCHANGED <<alias, memory, memory0>>

\* a bug: the output's text is returned whatever the artifact
AgentResult_NoCheck(output) == Returned(output.value)

\* the end of agent, from the output of the run on
AgentResult(output) ==
    IF output.type = "ErrorArtifact"
    THEN Raised("ValueError", output.value)
    ELSE Returned(output.value)

AgentRun(r) ==
    /\ slot[r].kind = "agent" /\ slot[r].pc = "run"
    /\ memory' = AddRun(memory, alias,
                        Run(AgentInput(slot[r].user_id, slot[r].message),
                            slot[r].run_output.value))
    /\ LET res == AgentResult(slot[r].run_output)
       IN  slot' = [slot EXCEPT ![r].pc = res.status, ![r].result = res,
                                ![r].trace = Append(@, Effect("agent_run", alias, listeners, NoData))]
    /\ UNCHANGED <<alias, listeners, memory0>>

-----------------------------------------------------------------------------
(* is_relevant_response                                                    *)

RelevantInput(message, response) ==
    <<"Given the following message: '">> \o message
    \o <<"', is the following response helpful and relevant? Response: ">> \o response

RelevantRun(r) ==
    /\ slot[r].kind = "is_relevant_response" /\ slot[r].pc = "start"
    /\ memory' = AddRun(memory, alias,
                        Run(RelevantInput(slot[r].message, slot[r].response),
                            <<slot[r].run_output.value>>))
    /\ LET res == IsRelevantResult(slot[r].run_output)
       IN  slot' = [slot EXCEPT ![r].pc = res.status, ![r].result = res,
                                ![r].trace = Append(@, Effect("agent_run", alias, listeners, NoData))]
    /\ UNCHANGED <<alias, listeners, memory0>>

\* the call is over: its frame is gone, the process-wide state stays
Finish(r) ==
    /\ Ended(r)
    /\ slot' = [slot EXCEPT ![r] = Idle]
    /\ UNCHANGED <<alias, memory, listeners, memory0>>

-----------------------------------------------------------------------------
(* The calls a request may be, with their inputs and with what the         *)
(* external services will answer to them.                                  *)

TryAddFrames(messages, users) ==
    [kind : {"try_add_to_thread"}, pc : {"start"}, thread_alias : Threads,
     message : messages, user_id : users, trace : {<<>>}]

GetRulesetsFrames ==
    [kind : {"get_rulesets"}, pc : {"start"},
     kwargs : SeqsUpTo(Users, MaxKwargs), dynamic_rulesets_enabled : BOOLEAN,
     missing : SUBSET Elems(DefaultRulesetIds),
     result : {NoResult}, trace : {<<>>}]

GetToolsFrames ==
    [kind : {"get_tools"}, pc : {"start"}, message : {<<"hi">>},
     dynamic : BOOLEAN, selector_output : SeqsUpTo(RespAtoms, MaxTokens),
     result : {NoResult}, trace : {<<>>}]

AgentRulesets == {RulesetByName(u) : u \in {"U1", "U2", "U3"}}

SelectorOutputs ==
    { <<"None">>, <<"slack_tool">>, <<>>, <<"Slack_Tool">>,
      <<"quote_knowledge_base_tool", ",", " ", "slack_tool">> }

RunOutputs == {TextArtifact(<<"ok">>), ErrorArtifact(<<"boom">>)}

AgentFrames(rulesets, event_listeners, selector_outputs) ==
    [kind : {"agent"}, pc : {"start"}, thread_alias : Threads,
     message : {<<"hi">>}, user_id : {"U1"},
     rulesets : rulesets, event_listeners : event_listeners, stream : BOOLEAN,
     dynamic_tools_enabled : BOOLEAN, selector_output : selector_outputs,
     run_output : RunOutputs,
     dynamic_tools : {FALSE}, tools : {<<>>}, result : {NoResult}, trace : {<<>>}]

RelevantFrames(texts) ==
    [kind : {"is_relevant_response"}, pc : {"start"}, thread_alias : Threads,
     message : {<<"hi">>}, response : {<<"ok">>},
     run_output : {TextArtifact(t) : t \in texts} \cup {ErrorArtifact("boom")},
     result : {[status |-> "none", value |-> JNull, error |-> <<>>]},
     trace : {<<>>}]

\* one call, with every input of the bounds
CallFrames ==
    TryAddFrames(SeqsUpTo(MsgAtoms, MaxAtoms), {"U1", "U2"})
    \cup GetRulesetsFrames
    \cup GetToolsFrames
    \cup AgentFrames(SeqsUpTo(AgentRulesets, MaxRulesets),
                     {{}, {"L1"}, {"L1", "L2"}}, SelectorOutputs)
    \cup RelevantFrames(JsonTexts)

\* the requests of a running host
HostFrames ==
    TryAddFrames({<<"hi">>, <<"<@UBOT>", "hi">>}, {"U1"})
    \cup {f \in AgentFrames({<<>>}, {{"L1"}, {"L2"}}, {<<"None">>, <<"Slack_Tool">>}) :
             f.stream /\ f.run_output.type = "TextArtifact"}
    \cup RelevantFrames({"{\"should_respond\": true}"})

EmptyMemory == [t \in Threads \cup {None} |-> <<>>]

EarlierRun == Run(<<"user_id '<@", "U2", ">': ", "earlier">>, <<"ok">>)

TotalRuns == Len(memory["T1"]) + Len(memory["T2"]) + Len(memory[None])

-----------------------------------------------------------------------------
(* The host: requests arrive and run concurrently, one call each.          *)

Init ==
    /\ alias = None
    /\ memory = EmptyMemory
    /\ memory0 = EmptyMemory
    /\ listeners = {}
    /\ slot = [r \in Req |-> Idle]

Receive(r) ==
    /\ ~Busy(r)
    /\ TotalRuns + Cardinality({q \in Req : Busy(q)}) < MaxRuns
    /\ \E f \in HostFrames : slot' = [slot EXCEPT ![r] = f]
    /\ UNCHANGED <<alias, memory, listeners, memory0>>

Next ==
    \E r \in Req :
        \/ Receive(r)
        \/ TryAddSetAlias(r)
        \/ TryAddScan(r)
        \/ TryAddRun(r)
        \/ AgentSetAlias(r)
        \/ AgentGetTools(r)
        \/ AgentPublish(r)
        \/ AgentRun(r)
        \/ RelevantRun(r)
        \/ Finish(r)

Spec == Init /\ [][Next]_vars

-----------------------------------------------------------------------------
(* One call, run alone from any state earlier calls may have left.         *)

InitCall ==
    /\ alias \in Threads \cup {None}
    /\ memory \in {EmptyMemory, [EmptyMemory EXCEPT !["T1"] = <<EarlierRun>>]}
    /\ memory0 = memory
    /\ listeners \in {{}, {"L2"}}
    /\ \E f \in CallFrames : slot = [r \in Req |-> IF r = "r1" THEN f ELSE Idle]

NextCall ==
    \E r \in Req :
        \/ TryAddSetAlias(r)
        \/ TryAddScan(r)
        \/ TryAddRun(r)
        \/ GetRulesetsCall(r)
        \/ GetToolsCall(r)
        \/ AgentSetAlias(r)
        \/ AgentGetTools(r)
        \/ AgentPublish(r)
        \/ AgentRun(r)
        \/ RelevantRun(r)
        \/ Finish(r)

SpecCall == InitCall /\ [][NextCall]_vars

-----------------------------------------------------------------------------
(* What the claims speak of, said without the code's own helpers.          *)

\* the message mentions an identity whose stored ruleset is bot-typed
BotMentioned(message) == \E i \in 1..Len(message) : message[i] = "<@UBOT>"

\* the mentions of a message: its atoms of the form <@id>
MentionAtoms(message) ==
    {i \in 1..Len(message) : message[i] \in {"<@U1>", "<@U2>", "<@U3>", "<@UBOT>"}}

\* the comma-separated pieces of a response, by the places of its commas
Commas(text) == {i \in 1..Len(text) : text[i] = ","}

Bound(text, k) ==
    IF k = 0 THEN 0
    ELSE IF k > Cardinality(Commas(text)) THEN Len(text) + 1
    ELSE CHOOSE i \in Commas(text) :
            Cardinality({j \in Commas(text) : j < i}) = k - 1

NPieces(text) == Cardinality(Commas(text)) + 1

Piece(text, k) == SubSeq(text, Bound(text, k - 1) + 1, Bound(text, k) - 1)

CatalogKeys ==
    { "rv_knowledge_base_tool", "truck_knowledge_base_tool",
      "quote_knowledge_base_tool", "github_tool", "slack_tool" }

\* the piece is one catalog key between blanks
SpellsKey(p) ==
    \E i \in 1..Len(p) :
        /\ p[i] \in CatalogKeys
        /\ \A j \in 1..Len(p) : j # i => p[j] = " "

KeyOf(p) == p[CHOOSE i \in 1..Len(p) : p[i] \in CatalogKeys]

AllKeys(text) == \A k \in 1..NPieces(text) : SpellsKey(Piece(text, k))

FullCatalog ==
    << "RagTool(rvKB)", "RagTool(truckKB)", "RagTool(quotes)",
       "GriptapeCloudToolTool(GT_CLOUD_GITHUB_TOOL_ID)",
       "GriptapeCloudToolTool(GT_CLOUD_SLACK_TOOL_ID)" >>

\* a ruleset of the request opts in to dynamic tools
OptsIn(ruleset) ==
    "dynamic_tools" \in DOMAIN ruleset.meta /\ ruleset.meta["dynamic_tools"] = TRUE

DynamicMode(f) ==
    f.dynamic_tools_enabled \/ \E i \in 1..Len(f.rulesets) : OptsIn(f.rulesets[i])

\* the effects of a frame that run an agent
RunsOf(trace) == {i \in 1..Len(trace) : trace[i].op \in {"selector_run", "agent_run"}}

\* the listeners the request itself supplied
Supplied(f) == IF f.kind = "agent" THEN f.event_listeners ELSE {}

-----------------------------------------------------------------------------
(* C1: when any mention of the message, at whatever place among the        *)
(* mentions, resolves to a bot-typed ruleset, try_add_to_thread adds no    *)
(* run: the store stays as it was before the call, to its end.             *)
C1_BotMentionAddsNoRun ==
    \A r \in Req :
        (slot[r].kind = "try_add_to_thread" /\ BotMentioned(slot[r].message))
            => /\ memory = memory0
               /\ slot[r].trace = <<>>
               /\ slot[r].pc # "add_run"

\* a call that has returned on a message whose bot mention comes last, after
\* a mention of an identity with no ruleset and one of a person
C1_Witness ==
    \E r \in Req :
        /\ slot[r].kind = "try_add_to_thread" /\ slot[r].pc = "returned"
        /\ slot[r].message = <<"<@U1>", "<@U2>", "<@UBOT>">>

(* C2: when no mention resolves to a bot-typed ruleset (no mention at all, *)
(* or mentions of identities without a ruleset among them), the returned   *)
(* call has added exactly one run to its thread and none elsewhere; the    *)
(* run's output is empty and its input holds the message and the user id.  *)
C2_NoBotAddsOneRun ==
    \A r \in Req :
        (/\ slot[r].kind = "try_add_to_thread"
         /\ ~BotMentioned(slot[r].message)
         /\ slot[r].pc \notin {"start", "scan", "add_run"})
            => LET f == slot[r]
                   t == f.thread_alias
                   n == Len(memory0[t])
               IN  /\ f.pc = "returned"
                   /\ Len(memory[t]) = n + 1
                   /\ SubSeq(memory[t], 1, n) = memory0[t]
                   /\ \A u \in DOMAIN memory : u # t => memory[u] = memory0[u]
                   /\ memory[t][n + 1].output = <<>>
                   /\ Contains(memory[t][n + 1].input, f.message)
                   /\ Contains(memory[t][n + 1].input, <<f.user_id>>)

\* a returned call whose message mentions an identity with no ruleset, then
\* a person: the run was added after the earlier run of the thread
C2_Witness ==
    \E r \in Req :
        /\ slot[r].kind = "try_add_to_thread" /\ slot[r].pc = "returned"
        /\ slot[r].message = <<"<@U1>", "hi", "<@U2>">>
        /\ slot[r].thread_alias = "T1"
        /\ Len(memory0["T1"]) = 1 /\ Len(memory["T1"]) = 2

(* C3: in dynamic mode, a response other than "None" with a piece that is  *)
(* no catalog key after trimming (an empty piece, a key in another case)   *)
(* ends get_tools in an error with no list at all; and every list that     *)
(* get_tools returns holds tools of the catalog only.                      *)
C3_UnknownNameFailsClosed ==
    \A r \in Req :
        (slot[r].kind = "get_tools" /\ Ended(r))
            => LET f == slot[r]
               IN  /\ (/\ f.dynamic
                       /\ f.selector_output # <<"None">>
                       /\ ~AllKeys(f.selector_output))
                          => /\ f.pc = "raised"
                             /\ f.result.status = "raised"
                             /\ f.result.value = <<>>
                   /\ f.pc = "returned" => Elems(f.result.value) \subseteq Elems(FullCatalog)

\* a call that raised on a response whose first piece is a key and whose
\* second is a key in another case
C3_Witness ==
    \E r \in Req :
        /\ slot[r].kind = "get_tools" /\ slot[r].pc = "raised"
        /\ slot[r].selector_output = <<"slack_tool", ",", " ", "Slack_Tool">>

(* C6: get_tools gives its reference result: not dynamic, the whole        *)
(* catalog in catalog order with no selector run; dynamic and "None", the  *)
(* empty list; dynamic and catalog keys between commas and blanks, the     *)
(* tools named, one per piece, in the order of the response.               *)
C6_GetToolsReference ==
    \A r \in Req :
        (slot[r].kind = "get_tools" /\ Ended(r))
            => LET f == slot[r]
                   out == f.selector_output
               IN  /\ ~f.dynamic
                        => /\ f.pc = "returned"
                           /\ f.result.value = FullCatalog
                           /\ Len(f.result.value) = Cardinality(CatalogKeys)
                           /\ f.trace = <<>>
                   /\ (f.dynamic /\ out = <<"None">>)
                        => f.pc = "returned" /\ f.result.value = <<>>
                   /\ (f.dynamic /\ out # <<"None">> /\ AllKeys(out))
                        => /\ f.pc = "returned"
                           /\ Len(f.result.value) = NPieces(out)
                           /\ \A k \in 1..NPieces(out) :
                                f.result.value[k] = ToolOf(KeyOf(Piece(out, k)))

\* the response "slack_tool, quote_knowledge_base_tool" gave the two tools in
\* the order of the response, which is not the catalog's
C6_Witness ==
    \E r \in Req :
        /\ slot[r].kind = "get_tools" /\ slot[r].pc = "returned" /\ slot[r].dynamic
        /\ slot[r].selector_output = <<"slack_tool", ",", " ", "quote_knowledge_base_tool">>
        /\ slot[r].result.value = << "GriptapeCloudToolTool(GT_CLOUD_SLACK_TOOL_ID)",
                                     "RagTool(quotes)" >>

(* C7: get_rulesets fails when one of the five default rulesets is not in  *)
(* the store; otherwise it returns the five defaults in their order, after *)
(* one ruleset per keyword value in the order given when dynamic rulesets  *)
(* are enabled, and alone, whatever the keywords, when they are not.       *)
C7_GetRulesetsReference ==
    \A r \in Req :
        (slot[r].kind = "get_rulesets" /\ Ended(r))
            => LET f == slot[r]
                   v == f.result.value
                   n == IF f.dynamic_rulesets_enabled THEN Len(f.kwargs) ELSE 0
               IN  IF f.missing # {}
                   THEN f.pc = "raised" /\ v = <<>>
                   ELSE /\ f.pc = "returned"
                        /\ Len(v) = n + 5
                        /\ \A i \in 1..n :
                              v[i].name = f.kwargs[i] /\ v[i].ruleset_id = None
                        /\ \A i \in 1..5 :
                              /\ v[n + i].ruleset_id = DefaultRulesetIds[i]
                              /\ v[n + i].name = None

\* dynamic rulesets enabled, two keyword values: seven rulesets returned
C7_Witness ==
    \E r \in Req :
        /\ slot[r].kind = "get_rulesets" /\ slot[r].pc = "returned"
        /\ slot[r].dynamic_rulesets_enabled
        /\ slot[r].kwargs = <<"UBOT", "U1">>
        /\ Len(slot[r].result.value) = 7

\* ... and a call that failed for one missing default ruleset
C7_WitnessMissing ==
    \E r \in Req :
        /\ slot[r].kind = "get_rulesets" /\ slot[r].pc = "raised"
        /\ Cardinality(slot[r].missing) = 1

(* C5 (as claimed): is_relevant_response returns the boolean of            *)
(* should_respond of a well-formed response, and fails, returning nothing, *)
(* on an error artifact, on a payload without should_respond and on a      *)
(* should_respond that is no boolean.                                      *)
WellFormedTrue ==
    { "{\"should_respond\": true}",
      "{\"should_respond\": true, \"reason\": \"on topic\"}" }

WellFormedFalse == {"{\"should_respond\": false}"}

C5_RelevantMatchesOrFails ==
    \A r \in Req :
        (slot[r].kind = "is_relevant_response" /\ Ended(r))
            => LET f == slot[r]
                   out == f.run_output
               IN  IF out.type = "TextArtifact" /\ out.value \in WellFormedTrue
                   THEN f.pc = "returned" /\ f.result.value = JBool(TRUE)
                   ELSE IF out.type = "TextArtifact" /\ out.value \in WellFormedFalse
                   THEN f.pc = "returned" /\ f.result.value = JBool(FALSE)
                   ELSE f.pc = "raised"

(* C8 (as claimed): the listeners of an agent call are on the bus before   *)
(* any agent run of the call starts, and a ToolEvent with the tools and    *)
(* the stream flag is published once, before the main run, exactly when    *)
(* the global flag or a ruleset of the call asks for dynamic tools.        *)
ToolEventAsClaimed(f) ==
    LET tr == f.trace
        run == First(tr, "agent_run")
        ev == First(tr, "ToolEvent")
    IN  /\ Count(tr, "ToolEvent") <= 1
        /\ ~DynamicMode(f) => Count(tr, "ToolEvent") = 0
        /\ (f.pc = "run" \/ run # 0)
              => /\ Count(tr, "ToolEvent") = IF DynamicMode(f) THEN 1 ELSE 0
                 /\ DynamicMode(f)
                      => /\ run # 0 => ev < run
                         /\ tr[ev].data = [tools |-> f.tools, stream |-> f.stream]
                         /\ f.event_listeners \subseteq tr[ev].to

C8_ListenersBeforeAnyRun ==
    \A r \in Req :
        slot[r].kind = "agent"
            => LET f == slot[r]
                   reg == First(f.trace, "add_event_listeners")
               IN  /\ \A i \in RunsOf(f.trace) :
                          /\ f.event_listeners \subseteq f.trace[i].to
                          /\ f.event_listeners # {} => (reg # 0 /\ reg < i)
                   /\ ToolEventAsClaimed(f)

(* C8 (amended): the listeners of an agent call are on the bus before its  *)
(* main agent run starts (the selector's run of a dynamic call comes       *)
(* before they are registered); the ToolEvent is as claimed.               *)
C8_ListenersBeforeMainRun ==
    \A r \in Req :
        slot[r].kind = "agent"
            => LET f == slot[r]
                   tr == f.trace
                   reg == First(tr, "add_event_listeners")
                   run == First(tr, "agent_run")
               IN  /\ (f.pc = "run" \/ run # 0)
                          => /\ reg # 0
                             /\ f.event_listeners \subseteq tr[reg].to
                             /\ f.event_listeners \subseteq listeners
                   /\ run # 0
                          => reg < run /\ f.event_listeners \subseteq tr[run].to
                   /\ \A i \in 1..Len(tr) :
                          tr[i].op = "selector_run" => (reg = 0 \/ i < reg)
                   /\ ToolEventAsClaimed(f)

\* a returned call made dynamic by a ruleset alone: its two listeners were
\* registered after the selector's run, and one ToolEvent came before the run
C8_Witness ==
    \E r \in Req :
        /\ slot[r].kind = "agent" /\ slot[r].pc = "returned"
        /\ ~slot[r].dynamic_tools_enabled
        /\ slot[r].rulesets = <<RulesetByName("U2"), RulesetByName("U3")>>
        /\ slot[r].event_listeners = {"L1", "L2"}
        /\ slot[r].stream
        /\ Ops(slot[r].trace) =
              <<"selector_run", "add_event_listeners", "ToolEvent", "agent_run">>
        /\ slot[r].trace[3].data.tools = <<"RagTool(quotes)",
                                           "GriptapeCloudToolTool(GT_CLOUD_SLACK_TOOL_ID)">>

(* C9: an agent call ends in one of two ways: an error carrying the text   *)
(* of the error artifact of its main run, or the text of the run's output; *)
(* the main run happens at most once, and not at all when the selection of *)
(* the tools has failed, which fails the call.                             *)
C9_AgentOutcome ==
    \A r \in Req :
        slot[r].kind = "agent"
            => LET f == slot[r]
                   runs == Count(f.trace, "agent_run")
                   out == f.run_output
                   badSelection == /\ DynamicMode(f)
                                   /\ f.selector_output # <<"None">>
                                   /\ ~AllKeys(f.selector_output)
               IN  /\ runs <= 1
                   /\ runs = 1 => Ended(r)
                   /\ (badSelection /\ f.pc \notin {"start", "get_tools"})
                          => /\ f.pc = "raised" /\ runs = 0
                             /\ f.result.error[1] = "KeyError"
                             /\ memory = memory0
                   /\ f.pc = "returned"
                          => /\ runs = 1 /\ out.type = "TextArtifact"
                             /\ f.result = [status |-> "returned", value |-> out.value,
                                            error |-> <<>>]
                   /\ (f.pc = "raised" /\ ~badSelection)
                          => /\ runs = 1 /\ out.type = "ErrorArtifact"
                             /\ f.result = [status |-> "raised", value |-> <<>>,
                                            error |-> <<"ValueError">> \o out.value]
                   /\ (runs = 1 /\ out.type = "ErrorArtifact") => f.pc = "raised"

\* a call whose main run gave an error artifact: it raised with the text
C9_Witness ==
    \E r \in Req :
        /\ slot[r].kind = "agent" /\ slot[r].pc = "raised"
        /\ Count(slot[r].trace, "agent_run") = 1
        /\ slot[r].result.error = <<"ValueError", "boom">>

(* C4 (as claimed): whatever a request does to the conversation memory, an *)
(* added run or an agent's run, it does while the process-wide alias is    *)
(* the request's own thread alias, however two requests interleave.        *)
C4_AliasIsTheRequestsOwn ==
    \A r \in Req :
        slot[r].kind \in {"try_add_to_thread", "agent", "is_relevant_response"}
            => \A i \in 1..Len(slot[r].trace) :
                  slot[r].trace[i].op \in {"add_run", "selector_run", "agent_run"}
                      => slot[r].trace[i].under = slot[r].thread_alias

\* the same of the two calls that set the alias themselves: only another
\* request's set_thread_alias, coming in between, can break it
C4_AliasOfTheCallsThatSetIt ==
    \A r \in Req :
        slot[r].kind \in {"try_add_to_thread", "agent"}
            => \A i \in 1..Len(slot[r].trace) :
                  slot[r].trace[i].op \in {"add_run", "selector_run", "agent_run"}
                      => slot[r].trace[i].under = slot[r].thread_alias

(* C10 (as claimed): the alias apart, the requests leave the process-wide  *)
(* state as it was: with every request over, the listeners on the bus are  *)
(* those of the start, and what a request publishes goes to the listeners  *)
(* that request supplied and to no other.                                  *)
C10_NoStateAcrossRequests ==
    /\ (\A r \in Req : ~Busy(r)) => listeners = {}
    /\ \A r \in Req :
          Busy(r) => \A i \in 1..Len(slot[r].trace) :
                        slot[r].trace[i].op \in {"selector_run", "ToolEvent", "agent_run"}
                            => slot[r].trace[i].to \subseteq Supplied(slot[r])

====
